---- MODULE Spec2Model ----
(***************************************************************************)
(* DiffusionConfig (lerobot/common/policies/diffusion/                     *)
(* configuration_diffusion.py): a plain @dataclass whose generated         *)
(* __init__ stores the keyword arguments (or the declared defaults) and    *)
(* then runs __post_init__, which validates three fields.                  *)
(*                                                                         *)
(* Encoding of Python values:                                              *)
(*   str            a sequence of one-character strings, so that           *)
(*                  str.startswith is a real prefix test;                  *)
(*   tuple (H, W)   the sequence <<H, W>> (index 0 of Python is index 1);  *)
(*   None           the empty sequence None; an optional int n is <<n>>;   *)
(*   keyword args   a record that has a field only for each argument that  *)
(*                  was passed.                                            *)
(* Only the fields that some statement of the class reads, and the fields  *)
(* the documentation relates to them, are part of the record.              *)
(***************************************************************************)
EXTENDS Integers, Sequences, FiniteSets, TLC

VARIABLES
    args,       \* object -> keyword arguments its constructor was called with
    outcome,    \* object -> "ok" | "ValueError" | "TypeError" of that call
    self,       \* object -> field values, for the objects that exist
    assigned,   \* object -> fields assigned to after construction
    nsets       \* object -> number of assignments after construction

vars == <<args, outcome, self, assigned, nsets>>

(* ------------------------------ bounds --------------------------------- *)

\* assignments made to one record after its construction
MaxSets == 2

\* how far above the default image size a dimension is tried
MaxOver == 1

(* ------------------------------ values --------------------------------- *)

None == <<>>

resnet == <<"r", "e", "s", "n", "e", "t">>

resnet18 == resnet \o <<"1", "8">>

resnet50 == resnet \o <<"5", "0">>

resnetXYZ == resnet \o <<"X", "Y", "Z">>

vgg16 == <<"v", "g", "g", "1", "6">>

epsilon == <<"e", "p", "s", "i", "l", "o", "n">>

sample == <<"s", "a", "m", "p", "l", "e">>

v_prediction == <<"v", "_", "p", "r", "e", "d", "i", "c", "t", "i", "o", "n">>

\* prefix.startswith-style test: s.startswith(prefix)
startswith(s, prefix) ==
    /\ Len(s) >= Len(prefix)
    /\ SubSeq(s, 1, Len(prefix)) = prefix

(* --------------------------- declared fields --------------------------- *)

FieldNames ==
    {"image_size", "horizon", "n_action_steps", "vision_backbone", "crop_shape",
     "num_train_timesteps", "prediction_type", "num_inference_steps"}

DefaultsBadCrop ==
    [image_size          |-> <<96, 96>>,
     horizon             |-> 16,
     n_action_steps      |-> 8,
     vision_backbone     |-> resnet18,
     crop_shape          |-> <<97, 97>>,
     num_train_timesteps |-> 100,
     prediction_type     |-> epsilon,
     num_inference_steps |-> None]

\* the default of every field, as declared in the class body
Defaults ==
    [image_size          |-> <<96, 96>>,
     horizon             |-> 16,
     n_action_steps      |-> 8,
     vision_backbone     |-> resnet18,
     crop_shape          |-> <<84, 84>>,
     num_train_timesteps |-> 100,
     prediction_type     |-> epsilon,
     num_inference_steps |-> None]

\* the dataclass-generated __init__ stores each passed argument, and the
\* declared default of each argument that was not passed
InitFields(kw) ==
    [f \in FieldNames |-> IF f \in DOMAIN kw THEN kw[f] ELSE Defaults[f]]

(* ----------------------------- __post_init__ --------------------------- *)

supported_prediction_types == {epsilon, sample}

BackboneRejected(r) == ~ startswith(r.vision_backbone, resnet)

CropRejectedHeightOnly(r) == r.crop_shape[1] > r.image_size[1]

\* evaluated only for a crop_shape that can be subscripted
CropRejected(r) ==
    \/ r.crop_shape[1] > r.image_size[1]
    \/ r.crop_shape[2] > r.image_size[2]

PredictionTypeRejected(r) == r.prediction_type \notin supported_prediction_types

post_init_checking_steps(r) ==
    IF BackboneRejected(r) THEN "ValueError"
    ELSE IF r.crop_shape = None THEN "TypeError"
    ELSE IF CropRejected(r) THEN "ValueError"
    ELSE IF PredictionTypeRejected(r) THEN "ValueError"
    ELSE IF r.n_action_steps > r.horizon THEN "ValueError"
    ELSE "ok"

\* the statements of __post_init__ in order; the first raise ends the call.
\* Subscripting None raises TypeError.
post_init(r) ==
    IF BackboneRejected(r) THEN "ValueError"
    ELSE IF r.crop_shape = None THEN "TypeError"
    ELSE IF CropRejected(r) THEN "ValueError"
    ELSE IF PredictionTypeRejected(r) THEN "ValueError"
    ELSE "ok"

(* ------------------------------- inputs -------------------------------- *)

Backbones == {resnet18, resnet, resnetXYZ, vgg16}

ImageSizes == {<<96, 96>>, <<84, 84>>}

CropShapes ==
    {None, <<84, 84>>, <<96, 96>>} \cup
    {<<96 + d, 96>> : d \in 1 .. MaxOver} \cup {<<96, 96 + d>> : d \in 1 .. MaxOver}

PredictionTypes == {epsilon, sample, v_prediction}

ActionSteps == {8, 17}

TrainTimesteps == {100, -1}

InferenceSteps == {<<10>>}

\* the values a field can be given
Values(f) ==
    CASE f = "image_size"          -> ImageSizes
      [] f = "horizon"             -> {16}
      [] f = "n_action_steps"      -> ActionSteps
      [] f = "vision_backbone"     -> Backbones
      [] f = "crop_shape"          -> CropShapes
      [] f = "num_train_timesteps" -> TrainTimesteps
      [] f = "prediction_type"     -> PredictionTypes
      [] f = "num_inference_steps" -> InferenceSteps \cup {None}

NoKwargs == [f \in {} |-> None]

\* constructor calls: no argument at all, every modelled argument but
\* num_inference_steps, or every modelled argument
Kwargs ==
    {NoKwargs} \cup
    [image_size: ImageSizes, n_action_steps: ActionSteps, vision_backbone: Backbones,
     crop_shape: CropShapes, num_train_timesteps: TrainTimesteps,
     prediction_type: PredictionTypes] \cup
    [image_size: ImageSizes, n_action_steps: ActionSteps, vision_backbone: Backbones,
     crop_shape: CropShapes, num_train_timesteps: TrainTimesteps,
     prediction_type: PredictionTypes, num_inference_steps: InferenceSteps]

(* ------------------------------ operations ----------------------------- *)

Extend(fn, o, v) == [x \in DOMAIN fn \cup {o} |-> IF x = o THEN v ELSE fn[x]]

Constructed(o) == o \in DOMAIN outcome

Exists(o) == o \in DOMAIN self

Init ==
    /\ args = [o \in {} |-> NoKwargs]
    /\ outcome = [o \in {} |-> "ok"]
    /\ self = [o \in {} |-> Defaults]
    /\ assigned = [o \in {} |-> {}]
    /\ nsets = [o \in {} |-> 0]

\* DiffusionConfig(**kw): __init__ stores the fields, then __post_init__
\* runs; when it raises, the caller gets no object
Construct(o, kw) ==
    /\ ~ Constructed(o)
    /\ LET r == InitFields(kw)
           res == post_init(r)
       IN /\ args' = Extend(args, o, kw)
          /\ outcome' = Extend(outcome, o, res)
          /\ IF res = "ok"
             THEN /\ self' = Extend(self, o, r)
                  /\ assigned' = Extend(assigned, o, {})
                  /\ nsets' = Extend(nsets, o, 0)
             ELSE UNCHANGED <<self, assigned, nsets>>

setattr_resetting_crop(r, f, v) ==
    [r EXCEPT ![f] = v, !["crop_shape"] = IF f = "image_size" THEN v ELSE @]

\* object.__setattr__ of a dataclass that is not frozen: stores the value
setattr(r, f, v) == [r EXCEPT ![f] = v]

\* cfg.f = v on an existing record; nothing is validated again
SetAttr(o, f, v) ==
    /\ Exists(o)
    /\ nsets[o] < MaxSets
    /\ self' = [self EXCEPT ![o] = setattr(self[o], f, v)]
    /\ assigned' = [assigned EXCEPT ![o] = @ \cup {f}]
    /\ nsets' = [nsets EXCEPT ![o] = @ + 1]
    /\ UNCHANGED <<args, outcome>>

\* the life of one record: constructed once, then assigned to
Next ==
    \/ \E kw \in Kwargs : Construct(1, kw)
    \/ \E f \in FieldNames : \E v \in Values(f) : SetAttr(1, f, v)

Spec == Init /\ [][Next]_vars

\* the arguments __post_init__ reads
ValidatedFields == {"vision_backbone", "crop_shape", "image_size", "prediction_type"}

AgreeOnValidated(kw1, kw2) ==
    \A f \in ValidatedFields : InitFields(kw1)[f] = InitFields(kw2)[f]

\* a second constructor call that repeats the validated arguments of the
\* call that made p and is free in every other argument
ConstructAlike(o, p, kw) ==
    /\ Constructed(p)
    /\ AgreeOnValidated(kw, args[p])
    /\ Construct(o, kw)

\* two constructor calls that agree on the validated arguments
NextPair ==
    \/ \E kw \in Kwargs : Construct(1, kw)
    \/ \E kw \in Kwargs : ConstructAlike(2, 1, kw)

SpecPair == Init /\ [][NextPair]_vars

(* ------------------------------ properties ----------------------------- *)

\* the fields as construction stored them
Stored(o) == InitFields(args[o])

\* the residual networks torchvision provides
TorchvisionResNets ==
    {resnet18, resnet50, resnet \o <<"3", "4">>, resnet \o <<"1", "0", "1">>,
     resnet \o <<"1", "5", "2">>}

\* C1: a constructed record has a vision_backbone that names a supported
\* ResNet variant, and every other name fails construction with ValueError.
C1_SupportedBackbone ==
    \A o \in DOMAIN outcome :
        /\ outcome[o] = "ok" => Stored(o).vision_backbone \in TorchvisionResNets
        /\ Stored(o).vision_backbone \notin TorchvisionResNets => outcome[o] = "ValueError"

\* C2: with a crop_shape that is not None, a constructed record has a crop
\* no larger than the image in either dimension, a crop larger in either
\* dimension fails with ValueError, and a crop equal to the image passes.
C2_CropFitsImage ==
    \A o \in DOMAIN outcome :
        Stored(o).crop_shape # None =>
            /\ outcome[o] = "ok" =>
                  /\ Stored(o).crop_shape[1] <= Stored(o).image_size[1]
                  /\ Stored(o).crop_shape[2] <= Stored(o).image_size[2]
            /\ (o \in DOMAIN self /\ nsets[o] = 0) =>
                  /\ self[o].crop_shape[1] <= self[o].image_size[1]
                  /\ self[o].crop_shape[2] <= self[o].image_size[2]
            /\ (\/ Stored(o).crop_shape[1] > Stored(o).image_size[1]
                \/ Stored(o).crop_shape[2] > Stored(o).image_size[2])
                  => outcome[o] = "ValueError"
            /\ (/\ Stored(o).crop_shape = Stored(o).image_size
                /\ startswith(Stored(o).vision_backbone, resnet)
                /\ Stored(o).prediction_type \in {epsilon, sample})
                  => outcome[o] = "ok"

C2_Witness ==
    /\ 1 \in DOMAIN self
    /\ nsets[1] = 0
    /\ self[1].crop_shape = <<96, 96>>
    /\ self[1].image_size = <<96, 96>>

\* C3: a constructed record has prediction_type "epsilon" or "sample", and
\* every other prediction_type fails construction with ValueError.
C3_PredictionType ==
    \A o \in DOMAIN outcome :
        /\ outcome[o] = "ok" => Stored(o).prediction_type \in {epsilon, sample}
        /\ Stored(o).prediction_type \notin {epsilon, sample} => outcome[o] = "ValueError"

\* C4: with crop_shape None, a backbone whose name starts with "resnet" and
\* a supported prediction_type, construction succeeds for every image_size
\* and the record's crop_shape is None.
C4_NoneCropAccepted ==
    \A o \in DOMAIN outcome :
        (/\ Stored(o).crop_shape = None
         /\ startswith(Stored(o).vision_backbone, resnet)
         /\ Stored(o).prediction_type \in {epsilon, sample})
            => /\ outcome[o] = "ok"
               /\ o \in DOMAIN self
               /\ nsets[o] = 0 => self[o].crop_shape = None

\* C5 as stated: every field of a record keeps the value it had when
\* construction finished, so the record passes the three checks in every
\* reachable state.
C5_Immutable ==
    \A o \in DOMAIN self :
        /\ self[o] = Stored(o)
        /\ post_init(self[o]) = "ok"

\* C5 amended: the record is not frozen; every field that has not been
\* assigned since construction holds its construction-time value, and while
\* none of the validated fields has been assigned the three checks still hold.
C5_UnassignedFieldsKeep ==
    \A o \in DOMAIN self :
        /\ \A f \in FieldNames \ assigned[o] : self[o][f] = Stored(o)[f]
        /\ assigned[o] \cap ValidatedFields = {} =>
              /\ startswith(self[o].vision_backbone, resnet)
              /\ self[o].crop_shape # None
              /\ self[o].crop_shape[1] <= self[o].image_size[1]
              /\ self[o].crop_shape[2] <= self[o].image_size[2]
              /\ self[o].prediction_type \in {epsilon, sample}

C5_Witness ==
    /\ 1 \in DOMAIN self
    /\ assigned[1] = {"image_size", "n_action_steps"}
    /\ self[1].image_size # Stored(1).image_size
    /\ self[1].crop_shape = Stored(1).crop_shape

C7_InferenceStepsDefault ==
    \A o \in DOMAIN self :
        ("num_inference_steps" \notin DOMAIN args[o] /\ nsets[o] = 0)
            => self[o].num_inference_steps = <<self[o].num_train_timesteps>>

====
